---- MODULE Spec2Model ----
(***************************************************************************)
(* ThinkBot_AL: the AI Avatar front end (src/src/App.tsx lines 1-317: the  *)
(* React component App with speak, handleImageChange, handleRoleReset and  *)
(* handleSubmit) and the avatar-video proxy (src/src/App.tsx lines         *)
(* 318-370: the Express handler of POST /api/talk).                        *)
(*                                                                         *)
(* src/unnamed/part_000 is an earlier copy of the same component, without *)
(* the gender hint of speak; its handlers are those of App.tsx.            *)
(*                                                                         *)
(* JavaScript strings are TLA+ strings, taken apart character by character *)
(* with Len, SubSeq and \o.  The lexer of TLA+ has no backtick, so the     *)
(* character "^" stands for the backtick of a Markdown fence.              *)
(***************************************************************************)
EXTENDS Integers, Sequences, FiniteSets, TLC

VARIABLES
    originalImage,  \* useState: {base64, mimeType} | null
    displayImage,   \* useState: string | null
    prompt,         \* useState: string
    currentRole,    \* useState: string | null
    isLoading,      \* useState: boolean
    error,          \* useState: string | null
    voices,         \* useState: SpeechSynthesisVoice[]
    dialogOpen,     \* the file chooser opened by triggerFileInput is showing
    readers,        \* FileReaders whose readAsDataURL has not finished: file -> count
    inflight,       \* generateContent calls awaited by a handleSubmit, with its closure
    synth,          \* window.speechSynthesis: the utterance queue, head is playing
    last,           \* the handler that ran last and what it was given
    talks           \* the proxy: one record per POST /api/talk request

appVars == <<originalImage, displayImage, prompt, currentRole, isLoading, error,
             voices, dialogOpen, readers, inflight, synth, last>>
vars == <<originalImage, displayImage, prompt, currentRole, isLoading, error,
          voices, dialogOpen, readers, inflight, synth, last, talks>>

----------------------------------------------------------------------------
(* JavaScript values that are not strings *)

\* null, as the value of a string-or-null state variable
Null == "<null>"
\* undefined: a missing property, a missing response text
Undefined == "<undefined>"
\* a function found on Object.prototype (not a string, and truthy)
InheritedFunction == "<function>"
\* Object.prototype itself, the value of the property __proto__ (truthy)
InheritedObject == "<Object.prototype>"

\* JavaScript truthiness of a string-or-null-or-undefined value
Truthy(v) == v # Null /\ v # Undefined /\ v # ""

----------------------------------------------------------------------------
(* String.prototype methods *)

CharAt(s, i) == SubSeq(s, i, i)

IsWhitespace(c) == c \in {" ", "\n", "\t", "\r"}

RECURSIVE TrimStart(_)
TrimStart(s) ==
    IF s = "" THEN ""
    ELSE IF IsWhitespace(CharAt(s, 1)) THEN TrimStart(SubSeq(s, 2, Len(s)))
    ELSE s

RECURSIVE TrimEnd(_)
TrimEnd(s) ==
    IF s = "" THEN ""
    ELSE IF IsWhitespace(CharAt(s, Len(s))) THEN TrimEnd(SubSeq(s, 1, Len(s) - 1))
    ELSE s

\* s.trim()
Trim(s) == TrimEnd(TrimStart(s))

\* s.startsWith(p)
StartsWith(s, p) == Len(p) <= Len(s) /\ SubSeq(s, 1, Len(p)) = p

\* s.includes(p)
Includes(s, p) ==
    \E i \in 1..(Len(s) - Len(p) + 1) : SubSeq(s, i, i + Len(p) - 1) = p

\* s.slice(start, -fromEnd): the characters from index start (0-based) up to
\* fromEnd characters before the end; empty when nothing is left
Slice(s, start, fromEnd) ==
    IF start >= Len(s) - fromEnd THEN "" ELSE SubSeq(s, start + 1, Len(s) - fromEnd)

RECURSIVE IndexFrom(_, _, _)
IndexFrom(s, c, i) ==
    IF i > Len(s) THEN 0 ELSE IF CharAt(s, i) = c THEN i ELSE IndexFrom(s, c, i + 1)

\* 1-based position of the first occurrence of the character c in s, 0 if none
IndexOf(s, c) == IndexFrom(s, c, 1)

\* s.split(sep)[0]
SplitFirst(s, sep) ==
    IF IndexOf(s, sep) = 0 THEN s ELSE SubSeq(s, 1, IndexOf(s, sep) - 1)

\* s.split(sep)[1]
SplitSecond(s, sep) ==
    IF IndexOf(s, sep) = 0 THEN Undefined
    ELSE SplitFirst(SubSeq(s, IndexOf(s, sep) + 1, Len(s)), sep)

UpperCase == "ABCDEFGHIJKLMNOPQRSTUVWXYZ"
LowerCase == "abcdefghijklmnopqrstuvwxyz"

LowerChar(c) ==
    LET i == IndexOf(UpperCase, c) IN IF i = 0 THEN c ELSE CharAt(LowerCase, i)

RECURSIVE ToLowerCase(_)
\* s.toLowerCase()
ToLowerCase(s) ==
    IF s = "" THEN "" ELSE LowerChar(CharAt(s, 1)) \o ToLowerCase(SubSeq(s, 2, Len(s)))

----------------------------------------------------------------------------
(* JSON.parse and JSON.stringify, for the JSON texts of the model: an      *)
(* object whose members are strings, or a string.  A parsed object is the  *)
(* sequence of its members <<key, value>> in insertion order.              *)

JsonPunctuation == {"{", "}", ":", ","}

RECURSIVE Tokenize(_)
\* the tokens of a JSON text; a character no token starts with ends the
\* sequence with a "bad" token
Tokenize(s) ==
    IF s = "" THEN << >>
    ELSE LET c == CharAt(s, 1)
             rest == SubSeq(s, 2, Len(s))
         IN  IF IsWhitespace(c) THEN Tokenize(rest)
             ELSE IF c \in JsonPunctuation
                  THEN <<[t |-> "punct", v |-> c]>> \o Tokenize(rest)
             ELSE IF c = "\"" /\ IndexOf(rest, "\"") # 0
                  THEN LET close == IndexOf(rest, "\"")
                       IN  <<[t |-> "str", v |-> SubSeq(rest, 1, close - 1)]>>
                           \o Tokenize(SubSeq(rest, close + 1, Len(rest)))
             ELSE <<[t |-> "bad", v |-> c]>>

IsPunct(tok, c) == tok.t = "punct" /\ tok.v = c

\* obj[key] = value: an existing key keeps its place, a new one goes last
SetMember(obj, key, value) ==
    IF \E i \in 1..Len(obj) : obj[i][1] = key
    THEN [i \in 1..Len(obj) |-> IF obj[i][1] = key THEN <<key, value>> ELSE obj[i]]
    ELSE Append(obj, <<key, value>>)

RECURSIVE ParseMembers(_, _)
\* the members after "{" or after a ",": str ":" str, then "," or the end
ParseMembers(toks, obj) ==
    IF Len(toks) < 3 \/ toks[1].t # "str" \/ ~IsPunct(toks[2], ":") \/ toks[3].t # "str"
    THEN [ok |-> FALSE, obj |-> << >>]
    ELSE LET o == SetMember(obj, toks[1].v, toks[3].v)
         IN  IF Len(toks) = 3 THEN [ok |-> TRUE, obj |-> o]
             ELSE IF IsPunct(toks[4], ",") THEN ParseMembers(SubSeq(toks, 5, Len(toks)), o)
             ELSE [ok |-> FALSE, obj |-> << >>]

JsonSyntaxError == [kind |-> "SyntaxError", obj |-> << >>, str |-> ""]

\* JSON.parse(s): kind "object", kind "string", or kind "SyntaxError" (it throws)
JsonParse(s) ==
    LET toks == Tokenize(s)
        n == Len(toks)
    IN  IF n = 0 THEN JsonSyntaxError
        ELSE IF n = 1 /\ toks[1].t = "str"
             THEN [kind |-> "string", obj |-> << >>, str |-> toks[1].v]
        ELSE IF n >= 2 /\ IsPunct(toks[1], "{") /\ IsPunct(toks[n], "}")
             THEN IF n = 2 THEN [kind |-> "object", obj |-> << >>, str |-> ""]
                  ELSE LET m == ParseMembers(SubSeq(toks, 2, n - 1), << >>)
                       IN  IF m.ok THEN [kind |-> "object", obj |-> m.obj, str |-> ""]
                           ELSE JsonSyntaxError
        ELSE JsonSyntaxError

\* value.key of a parsed value: undefined when it has no such member
Member(value, key) ==
    IF value.kind = "object" /\ \E i \in 1..Len(value.obj) : value.obj[i][1] = key
    THEN value.obj[CHOOSE i \in 1..Len(value.obj) : value.obj[i][1] = key][2]
    ELSE Undefined

Quote(s) == "\"" \o s \o "\""

RECURSIVE StringifyMembers(_)
StringifyMembers(obj) ==
    IF Len(obj) = 0 THEN ""
    ELSE Quote(obj[1][1]) \o ":" \o Quote(obj[1][2])
         \o (IF Len(obj) = 1 THEN "" ELSE "," \o StringifyMembers(Tail(obj)))

\* JSON.stringify(value) of a parsed value
JsonStringify(value) ==
    IF value.kind = "string" THEN Quote(value.str)
    ELSE "{" \o StringifyMembers(value.obj) \o "}"

----------------------------------------------------------------------------
(* Property lookup table[key] on an object literal *)

\* the string-keyed properties every object literal inherits from Object.prototype
ObjectPrototypeFunctions ==
    {"constructor", "hasOwnProperty", "isPrototypeOf", "propertyIsEnumerable",
     "toLocaleString", "toString", "valueOf", "__defineGetter__", "__defineSetter__",
     "__lookupGetter__", "__lookupSetter__"}

\* table[key], the table an object literal given as its <<key, value>> members:
\* an own property, else one inherited from Object.prototype, else undefined
Lookup(table, key) ==
    IF \E i \in 1..Len(table) : table[i][1] = key
    THEN table[CHOOSE i \in 1..Len(table) : table[i][1] = key][2]
    ELSE IF key \in ObjectPrototypeFunctions THEN InheritedFunction
    ELSE IF key = "__proto__" THEN InheritedObject
    ELSE Undefined

\* a || b
OrElse(a, b) == IF Truthy(a) THEN a ELSE b

roleToGender ==
    << <<"king", "male">>, <<"policeman", "male">>, <<"police", "male">>,
       <<"police officer", "male">>, <<"farmer", "male">>, <<"doctor", "male">>,
       <<"prince", "male">>, <<"emperor", "male">>, <<"pirate", "male">>,
       <<"knight", "male">>, <<"wizard", "male">>, <<"detective", "male">>,
       <<"man", "male">>, <<"boy", "male">>,
       <<"queen", "female">>, <<"policewoman", "female">>, <<"teacher", "female">>,
       <<"dancer", "female">>, <<"singer", "female">>, <<"princess", "female">>,
       <<"empress", "female">>, <<"witch", "female">>, <<"actress", "female">>,
       <<"woman", "female">>, <<"girl", "female">> >>

\* handleSubmit: normalizedRole and gender
GenderOf(role) == OrElse(Lookup(roleToGender, Trim(ToLowerCase(role))), "neutral")

----------------------------------------------------------------------------
(* The environment of the front end: files, installed voices, API results *)

\* the most FileReaders pending at once
MaxPendingReads == 2

\* the files the user can choose: content (as base64) and MIME type
Files == {[content |-> "AAAA", type |-> "image/png"],
          [content |-> "BBBB", type |-> "image/jpeg"]}

\* the texts the user can type into the form's input
PromptTexts == {" ", "King ", "hi"}

\* the roles of a conversation that is followed from an active role on: listed
\* roles in another case and with spaces around, a role the table does not
\* list, and a role that names a property of Object.prototype
RoleTexts == {"King ", " Police Officer ", "QUEEN", "hi", "Constructor"}

VoiceFemaleGB == [name |-> "Google UK English Female", lang |-> "en-GB",
                  localService |-> FALSE, default |-> FALSE]
VoiceMaleGB == [name |-> "Google UK English Male", lang |-> "en-GB",
                localService |-> FALSE, default |-> FALSE]
VoiceSamantha == [name |-> "Samantha", lang |-> "en-US",
                  localService |-> TRUE, default |-> TRUE]
VoiceHindi == [name |-> "Google Hindi", lang |-> "hi-IN",
               localService |-> FALSE, default |-> FALSE]

\* what speechSynthesis.getVoices() can return: nothing before the browser has
\* loaded its voices, then the installed list
VoiceLists == { << >>, <<VoiceFemaleGB, VoiceMaleGB, VoiceSamantha, VoiceHindi>> }

\* response.text of the text-generation service
ChatTexts ==
    {"{\"language\":\"en-GB\",\"response\":\"Hello\"}",
     "^^^json\n{\"language\":\"fr-FR\",\"response\":\"Bonjour\"}\n^^^",
     "{\"language\":\"en-GB\",\"response\":\"\"}",
     "{\"response\":\"Hello\"}",
     "Hello there",
     "  "}

NoInlineData == [data |-> Null, mimeType |-> Null]

\* the image the image-generation service makes of the image data it was sent
TransformedData(data) == "T(" \o data \o ")"

\* how an awaited generateContent call can settle.  settled: the promise
\* rejected or fulfilled; shape: what the response holds (no candidates
\* property, an empty candidates array, a candidate whose content has no
\* parts property, a first part that is text, a first part that is an image,
\* or, for the chat model, its text); inlineData of an image part; text.
Rejected == [settled |-> "rejected", shape |-> "none", inlineData |-> NoInlineData,
             text |-> Undefined]

TransformResults(req) ==
    {Rejected}
    \cup {[settled |-> "fulfilled", shape |-> sh, inlineData |-> NoInlineData,
           text |-> Undefined] :
            sh \in {"noCandidates", "emptyCandidates", "noParts", "textPart"}}
    \cup {[settled |-> "fulfilled", shape |-> "imagePart",
           inlineData |-> [data |-> TransformedData(req.image.base64),
                           mimeType |-> "image/png"],
           text |-> Undefined]}

ChatResults ==
    {Rejected}
    \cup {[settled |-> "fulfilled", shape |-> "text", inlineData |-> NoInlineData,
           text |-> t] : t \in ChatTexts \cup {Undefined}}

\* step 2 from response.text to the destructuring of JSON.parse(jsonString):
\* responseText, whether JSON.parse threw, language and textResponse
ReadChatText(text) ==
    LET responseText == Trim(text)
        jsonString == IF StartsWith(responseText, "^^^json")
                      THEN Trim(Slice(responseText, 7, 3))
                      ELSE responseText
        parsed == JsonParse(jsonString)
    IN  [responseText |-> responseText,
         threw |-> parsed.kind = "SyntaxError",
         language |-> Member(parsed, "language"),
         textResponse |-> Member(parsed, "response")]

\* ReadChatText of every text of the model, evaluated once
ChatReadings == [text \in ChatTexts |-> ReadChatText(text)]

\* the languages and genders speak is called with
Languages == {"en-US"} \cup ({ChatReadings[text].language : text \in ChatTexts} \ {Undefined})
Genders == {GenderOf(role) : role \in PromptTexts \cup RoleTexts}

----------------------------------------------------------------------------
(* speak *)

\* no voice: utterance.voice left unset, find(...) returning undefined
NoVoice == [name |-> Null, lang |-> Null, localService |-> FALSE, default |-> FALSE]

\* array.find(Test), given the elements of the array that pass Test in the
\* order of the array: the first of them, undefined (NoVoice) if there is none
FindFirst(passing) == IF Len(passing) > 0 THEN passing[1] ELSE NoVoice

\* a || b on voices
OrVoice(a, b) == IF a # NoVoice THEN a ELSE b

\* speak, step 1: the voices for the target language
LangVoices(vs, lang) ==
    LET Matches(v) == v.lang = lang \/ StartsWith(v.lang, SplitFirst(lang, "-"))
    IN  SelectSeq(vs, Matches)

\* speak, step 2: the voices of langVoices whose name contains the gender word
GenderVoices(langVoices, gender) ==
    LET Named(v) == Includes(ToLowerCase(v.name), gender)
    IN  SelectSeq(langVoices, Named)

\* speak, steps 1 to 3: the voice set on the utterance, NoVoice if none is set
SelectVoice(vs, lang, gender) ==
    LET langVoices == LangVoices(vs, lang)
        NonLocal(v) == ~v.localService
        IsDefault(v) == v.default
        genderVoices == IF gender \in {"male", "female"}
                        THEN GenderVoices(langVoices, gender) ELSE << >>
        byGender == IF Len(genderVoices) > 0
                    THEN OrVoice(FindFirst(SelectSeq(genderVoices, NonLocal)),
                                 genderVoices[1])
                    ELSE NoVoice
    IN  IF Len(langVoices) = 0 THEN NoVoice
        ELSE IF byGender # NoVoice THEN byGender
        ELSE OrVoice(FindFirst(SelectSeq(langVoices, IsDefault)),
                     OrVoice(FindFirst(SelectSeq(langVoices, NonLocal)), langVoices[1]))

\* SelectVoice for every call of the model, evaluated once
VoiceChoice ==
    [vs \in VoiceLists, lang \in Languages, gender \in Genders |->
        SelectVoice(vs, lang, gender)]

\* a speak that does not cancel
CancelNothing(queue) == queue

\* window.speechSynthesis.cancel(): the queue is emptied
Cancel(queue) == << >>

\* window.speechSynthesis.speak(utterance): the utterance is queued
Enqueue(queue, utterance) == Append(queue, utterance)

\* speak(text, lang, gender) called with the voices vs of its closure on the
\* synthesizer queue: the queue afterwards, the utterance handed to the
\* synthesizer (as a sequence, empty if none), and whether speak threw.  A
\* lang that is undefined throws at lang.split in the callback of
\* voices.filter, after the cancel, when there is a voice to call it for;
\* with no voice installed the callback never runs, and the utterance goes
\* out with no voice and the lang attribute "undefined" (undefined assigned
\* to a DOMString attribute)
Speak(queue, vs, text, lang, gender) ==
    IF lang = Undefined /\ Len(vs) > 0
    THEN [threw |-> TRUE, queue |-> Cancel(queue), spoken |-> << >>]
    ELSE LET utterance == IF lang = Undefined
                          THEN [text |-> text, lang |-> "undefined", voice |-> NoVoice]
                          ELSE [text |-> text, lang |-> lang,
                                voice |-> VoiceChoice[vs, lang, gender]]
         IN  [threw |-> FALSE, queue |-> Enqueue(Cancel(queue), utterance),
              spoken |-> <<utterance>>]

----------------------------------------------------------------------------
(* The state of App and its handlers *)

NoImage == [base64 |-> Null, mimeType |-> Null]

\* the template literal data:${mimeType};base64,${base64}
DataUrl(mimeType, base64) == "data:" \o mimeType \o ";base64," \o base64

\* reader.result of readAsDataURL(file)
ReadAsDataURL(file) == "data:" \o file.type \o ";base64," \o file.content

TransformInstruction(currentPrompt) ==
    "Transform the person in the photo to embody the role of: \"" \o currentPrompt
    \o "\". Change their clothes, accessories, and background to match the role. "
    \o "Do not add any text or speech bubbles. Only output the transformed image."

SystemInstruction(role) ==
    "You are an AI Avatar. Your current role is \"" \o role \o "\".\n"
    \o "You must follow these rules:\n"
    \o "1. Stay fully in character for the role of \"" \o role \o "\".\n"
    \o "2. Always reply in the same language the user speaks (e.g., Hindi or English).\n"
    \o "3. Your response will be spoken, so it should be conversational."

NoRequest ==
    [kind |-> "none", model |-> Null, image |-> NoImage, contents |-> Null,
     systemInstruction |-> Null, currentPrompt |-> Null, gender |-> Null,
     voices |-> << >>]

\* the generateContent call of step 1 with what the rest of handleSubmit keeps
\* in its closure
TransformRequest ==
    [kind |-> "transform", model |-> "gemini-2.5-flash-image-preview",
     image |-> originalImage, contents |-> TransformInstruction(prompt),
     systemInstruction |-> Null, currentPrompt |-> prompt, gender |-> Null,
     voices |-> voices]

\* the generateContent call of step 2 with what the rest of handleSubmit keeps
\* in its closure
ChatRequest ==
    [kind |-> "chat", model |-> "gemini-2.5-flash",
     image |-> NoImage, contents |-> prompt,
     systemInstruction |-> SystemInstruction(currentRole), currentPrompt |-> prompt,
     gender |-> GenderOf(currentRole), voices |-> voices]

NoResult == [settled |-> "none", shape |-> "none", inlineData |-> NoInlineData,
             text |-> Undefined]

\* last: op names the handler ("submit", "response", "loadend", "other"), accepted whether
\* a submit passed the check of its input, req the request a submit sent or a
\* response answered, result how that request settled, spoke the utterances
\* this handler handed to the synthesizer, in order
Event(op, accepted, req, result, spoke) ==
    [op |-> op, accepted |-> accepted, req |-> req, result |-> result, spoke |-> spoke]

Other == Event("other", FALSE, NoRequest, NoResult, << >>)

Init ==
    /\ originalImage = NoImage
    /\ displayImage = Null
    /\ prompt = ""
    /\ currentRole = Null
    /\ isLoading = FALSE
    /\ error = Null
    /\ voices \in VoiceLists
    /\ dialogOpen = FALSE
    /\ readers = [f \in Files |-> 0]
    /\ inflight = << >>
    /\ synth = << >>
    /\ last = Other
    /\ talks = << >>

\* the useEffect: onvoiceschanged = loadVoices
LoadVoices ==
    /\ \E vs \in VoiceLists : voices' = vs
    /\ last' = Other
    /\ UNCHANGED <<originalImage, displayImage, prompt, currentRole, isLoading, error,
                   dialogOpen, readers, inflight, synth, talks>>

\* the file chooser that click() opens is modal: while it shows, the user
\* cannot type, submit or press a button of the page
UserCanAct == ~dialogOpen

\* the render: the form replaces the Upload Photo button once an image is held
FormRendered == originalImage # NoImage

\* a form that stays enabled while a request is outstanding
FormNeverDisabled == FALSE

\* the render: input and submit button are disabled={isLoading}
FormDisabled == isLoading

\* a Change Role button that stays rendered while a request is outstanding
ChangeRoleRenderedWhileLoading == FormRendered /\ Truthy(currentRole)

\* the render: {currentRole && !isLoading && <button onClick={handleRoleReset}>}
ChangeRoleRendered == FormRendered /\ Truthy(currentRole) /\ ~isLoading

\* the Upload Photo button: fileInputRef.current?.click()
TriggerFileInput ==
    /\ UserCanAct
    /\ ~FormRendered
    /\ dialogOpen' = TRUE
    /\ last' = Other
    /\ UNCHANGED <<originalImage, displayImage, prompt, currentRole, isLoading, error,
                   voices, readers, inflight, synth, talks>>

PendingReads == LET RECURSIVE Sum(_)
                    Sum(S) == IF S = {} THEN 0
                              ELSE LET f == CHOOSE f \in S : TRUE
                                   IN  readers[f] + Sum(S \ {f})
                IN  Sum(Files)

\* the file chooser is closed without a file: no change event
CancelFileInput ==
    /\ dialogOpen
    /\ dialogOpen' = FALSE
    /\ last' = Other
    /\ UNCHANGED <<originalImage, displayImage, prompt, currentRole, isLoading, error,
                   voices, readers, inflight, synth, talks>>

\* the change event of the file input with the chosen file
handleImageChange(file) ==
    /\ dialogOpen
    /\ PendingReads < MaxPendingReads
    /\ dialogOpen' = FALSE
    /\ error' = Null
    /\ currentRole' = Null
    /\ prompt' = ""
    /\ readers' = [readers EXCEPT ![file] = @ + 1]
    /\ last' = Other
    /\ UNCHANGED <<originalImage, displayImage, isLoading, voices, inflight, synth, talks>>

\* an onloadend that keeps the whole data URL as the image data
ReaderLoadEndWithoutSplit(file) ==
    /\ readers[file] > 0
    /\ readers' = [readers EXCEPT ![file] = @ - 1]
    /\ originalImage' = [base64 |-> ReadAsDataURL(file), mimeType |-> file.type]
    /\ displayImage' = ReadAsDataURL(file)
    /\ last' = Event("loadend", FALSE, NoRequest, NoResult, << >>)
    /\ UNCHANGED <<prompt, currentRole, isLoading, error, voices, dialogOpen, inflight,
                   synth, talks>>

\* reader.onloadend after a successful read
ReaderLoadEnd(file) ==
    /\ readers[file] > 0
    /\ readers' = [readers EXCEPT ![file] = @ - 1]
    /\ LET base64String == SplitSecond(ReadAsDataURL(file), ",")
       IN  /\ originalImage' = [base64 |-> base64String, mimeType |-> file.type]
           /\ displayImage' = DataUrl(file.type, base64String)
    /\ last' = Event("loadend", FALSE, NoRequest, NoResult, << >>)
    /\ UNCHANGED <<prompt, currentRole, isLoading, error, voices, dialogOpen, inflight,
                   synth, talks>>

\* a failed read whose onloadend does not throw but stores an image without
\* data, as with reader.result?.split(',')[1]
ReaderErrorStoringImage(file) ==
    /\ readers[file] > 0
    /\ readers' = [readers EXCEPT ![file] = @ - 1]
    /\ error' = "Failed to read the image file."
    /\ originalImage' = [base64 |-> Undefined, mimeType |-> file.type]
    /\ displayImage' = DataUrl(file.type, Undefined)
    /\ last' = Other
    /\ UNCHANGED <<prompt, currentRole, isLoading, voices, dialogOpen, inflight, synth,
                   talks>>

\* a failed read: reader.onerror, then reader.onloadend, which throws at
\* reader.result.split (the result is null) before it sets any state
ReaderError(file) ==
    /\ readers[file] > 0
    /\ readers' = [readers EXCEPT ![file] = @ - 1]
    /\ error' = "Failed to read the image file."
    /\ last' = Other
    /\ UNCHANGED <<originalImage, displayImage, prompt, currentRole, isLoading, voices,
                   dialogOpen, inflight, synth, talks>>

\* the onChange of the form's input
SetPrompt(text) ==
    /\ UserCanAct /\ FormRendered /\ ~FormDisabled
    /\ prompt # text
    /\ prompt' = text
    /\ last' = Other
    /\ UNCHANGED <<originalImage, displayImage, currentRole, isLoading, error, voices,
                   dialogOpen, readers, inflight, synth, talks>>

handleRoleReset ==
    /\ UserCanAct /\ ChangeRoleRendered
    /\ currentRole' = Null
    /\ error' = Null
    /\ displayImage' = IF originalImage # NoImage
                       THEN DataUrl(originalImage.mimeType, originalImage.base64)
                       ELSE displayImage
    /\ last' = Other
    /\ UNCHANGED <<originalImage, prompt, isLoading, voices, dialogOpen, readers,
                   inflight, synth, talks>>

\* an utterance finishes playing
UtteranceEnd ==
    /\ Len(synth) > 0
    /\ synth' = Tail(synth)
    /\ last' = Other
    /\ UNCHANGED <<originalImage, displayImage, prompt, currentRole, isLoading, error,
                   voices, dialogOpen, readers, inflight, talks>>

----------------------------------------------------------------------------
(* handleSubmit *)

\* a handleSubmit that transforms the image whatever the conversation state
AlwaysTransform == TransformRequest

\* if (!currentRole): step 1, the image transform, else step 2, the chat turn
NextRequest == IF ~Truthy(currentRole) THEN TransformRequest ELSE ChatRequest

\* a handleSubmit that checks !prompt instead of !prompt.trim()
handleSubmitWithoutTrim ==
    /\ UserCanAct /\ FormRendered /\ ~FormDisabled
    /\ IF ~Truthy(prompt) \/ originalImage = NoImage
       THEN /\ error' = "Please provide a role or a message."
            /\ last' = Event("submit", FALSE, NoRequest, NoResult, << >>)
            /\ UNCHANGED <<isLoading, prompt, inflight>>
       ELSE LET request == NextRequest
            IN  /\ isLoading' = TRUE
                /\ error' = Null
                /\ prompt' = ""
                /\ inflight' = Append(inflight, request)
                /\ last' = Event("submit", TRUE, request, NoResult, << >>)
    /\ UNCHANGED <<originalImage, displayImage, currentRole, voices, dialogOpen, readers,
                   synth, talks>>

\* handleSubmit up to its await: the check of the input, then the request
handleSubmit ==
    /\ UserCanAct /\ FormRendered /\ ~FormDisabled
    /\ IF ~Truthy(Trim(prompt)) \/ originalImage = NoImage
       THEN /\ error' = "Please provide a role or a message."
            /\ last' = Event("submit", FALSE, NoRequest, NoResult, << >>)
            /\ UNCHANGED <<isLoading, prompt, inflight>>
       ELSE LET request == NextRequest
            IN  /\ isLoading' = TRUE
                /\ error' = Null
                /\ prompt' = ""
                /\ inflight' = Append(inflight, request)
                /\ last' = Event("submit", TRUE, request, NoResult, << >>)
    /\ UNCHANGED <<originalImage, displayImage, currentRole, voices, dialogOpen, readers,
                   synth, talks>>

\* what a continuation of handleSubmit leaves in the state it sets, and the
\* utterances it handed to the synthesizer
Unchanged ==
    [displayImage |-> displayImage, currentRole |-> currentRole, error |-> error,
     prompt |-> prompt, synth |-> synth, spoke |-> << >>]

\* a catch that reports the error and leaves the input empty
CaughtWithoutRestore(req) ==
    [Unchanged EXCEPT
        !.error = "An error occurred while generating the response. Please try again."]

\* the outer catch (err)
Caught(req) ==
    [Unchanged EXCEPT
        !.error = "An error occurred while generating the response. Please try again.",
        !.prompt = req.currentPrompt]

\* response.candidates[0]?.content?.parts[0]: "TypeError" when candidates or
\* parts is undefined, "undefined" when a ?. short-circuits or the array is
\* empty, else the part
FirstPart(result) ==
    IF result.shape \in {"noCandidates", "noParts"} THEN "TypeError"
    ELSE IF result.shape = "emptyCandidates" THEN "undefined"
    ELSE result.shape

\* a step 1 that stores the normalized role instead of the submitted text
AfterTransformNormalizing(req, result) ==
    IF result.settled = "rejected" \/ FirstPart(result) = "TypeError" THEN Caught(req)
    ELSE IF FirstPart(result) = "imagePart" /\ result.inlineData # NoInlineData
    THEN [Unchanged EXCEPT
            !.displayImage = DataUrl(result.inlineData.mimeType, result.inlineData.data),
            !.currentRole = Trim(ToLowerCase(req.currentPrompt))]
    ELSE [Unchanged EXCEPT
            !.error = "Failed to transform the image. Please try a different role.",
            !.prompt = req.currentPrompt]

\* step 1 after its await
AfterTransform(req, result) ==
    IF result.settled = "rejected" \/ FirstPart(result) = "TypeError" THEN Caught(req)
    ELSE IF FirstPart(result) = "imagePart" /\ result.inlineData # NoInlineData
    THEN [Unchanged EXCEPT
            !.displayImage = DataUrl(result.inlineData.mimeType, result.inlineData.data),
            !.currentRole = req.currentPrompt]
    ELSE [Unchanged EXCEPT
            !.error = "Failed to transform the image. Please try a different role.",
            !.prompt = req.currentPrompt]

\* the state after a speak call s that did not throw
Spoken(s) == [Unchanged EXCEPT !.synth = s.queue, !.spoke = s.spoken]

\* the catch (e) of the inner try, entered with the synthesizer queue as the
\* try block left it
ParseFallback(req, responseText, queue) ==
    IF Truthy(responseText)
    THEN Spoken(Speak(queue, req.voices, responseText, "en-US", req.gender))
    ELSE [Unchanged EXCEPT
            !.synth = queue,
            !.error = "I'm sorry, I received an invalid response.",
            !.prompt = req.currentPrompt]

\* the inner try of step 2 once speak(textResponse, language, gender) has
\* returned or thrown as s
AfterSpeak(req, read, s) ==
    IF s.threw THEN ParseFallback(req, read.responseText, s.queue) ELSE Spoken(s)

\* the inner try of step 2 and its catch, read being what ReadChatText made
\* of response.text
AfterRead(req, read) ==
    IF read.threw THEN ParseFallback(req, read.responseText, synth)
    ELSE IF ~Truthy(read.textResponse)
    THEN [Unchanged EXCEPT
            !.error = "I'm sorry, I couldn't think of a response.",
            !.prompt = req.currentPrompt]
    ELSE AfterSpeak(req, read,
                    Speak(synth, req.voices, read.textResponse, read.language, req.gender))

\* step 2 after its await
AfterChat(req, result) ==
    IF result.settled = "rejected" \/ result.text = Undefined THEN Caught(req)
    ELSE AfterRead(req, ChatReadings[result.text])

ResultsFor(req) == IF req.kind = "transform" THEN TransformResults(req) ELSE ChatResults

Remove(seq, i) == SubSeq(seq, 1, i - 1) \o SubSeq(seq, i + 1, Len(seq))

\* what the rest of handleSubmit computes for the request req once its call
\* has settled with result
AfterAwait(req, result) ==
    IF req.kind = "transform" THEN AfterTransform(req, result)
    ELSE AfterChat(req, result)

\* the state setters of the rest of handleSubmit applied, after being what
\* AfterAwait computed
SetState(req, result, after) ==
    /\ displayImage' = after.displayImage
    /\ currentRole' = after.currentRole
    /\ error' = after.error
    /\ prompt' = after.prompt
    /\ synth' = after.synth
    /\ last' = Event("response", TRUE, req, result, after.spoke)

\* a handleSubmit that sends a rejected request again by itself
HandleResponseRetrying(i, result) ==
    /\ i \in 1..Len(inflight)
    /\ result \in ResultsFor(inflight[i])
    /\ SetState(inflight[i], result, AfterAwait(inflight[i], result))
    /\ isLoading' = (result.settled = "rejected")
    /\ inflight' = IF result.settled = "rejected"
                   THEN Append(Remove(inflight, i), inflight[i])
                   ELSE Remove(inflight, i)
    /\ UNCHANGED <<originalImage, voices, dialogOpen, readers, talks>>

\* a handleSubmit whose successful transform also replaces originalImage by
\* the transformed image
HandleResponseReplacingOriginal(i, result) ==
    /\ i \in 1..Len(inflight)
    /\ result \in ResultsFor(inflight[i])
    /\ SetState(inflight[i], result, AfterAwait(inflight[i], result))
    /\ isLoading' = FALSE
    /\ inflight' = Remove(inflight, i)
    /\ originalImage' = IF inflight[i].kind = "transform" /\ result.inlineData # NoInlineData
                        THEN [base64 |-> result.inlineData.data,
                              mimeType |-> result.inlineData.mimeType]
                        ELSE originalImage
    /\ UNCHANGED <<voices, dialogOpen, readers, talks>>

\* a handleSubmit without its finally, setIsLoading(false) being the last
\* statement of the try block: a rejected call leaves the flag set
HandleResponseWithoutFinally(i, result) ==
    /\ i \in 1..Len(inflight)
    /\ result \in ResultsFor(inflight[i])
    /\ SetState(inflight[i], result, AfterAwait(inflight[i], result))
    /\ isLoading' = (result.settled = "rejected")
    /\ inflight' = Remove(inflight, i)
    /\ UNCHANGED <<originalImage, voices, dialogOpen, readers, talks>>

\* the rest of handleSubmit, run when its generateContent call settles: the
\* try block after the await, the catch, and the finally
HandleResponse(i, result) ==
    /\ i \in 1..Len(inflight)
    /\ result \in ResultsFor(inflight[i])
    /\ SetState(inflight[i], result, AfterAwait(inflight[i], result))
    /\ isLoading' = FALSE
    /\ inflight' = Remove(inflight, i)
    /\ UNCHANGED <<originalImage, voices, dialogOpen, readers, talks>>

Next ==
    \/ LoadVoices
    \/ TriggerFileInput
    \/ CancelFileInput
    \/ \E file \in Files : handleImageChange(file)
    \/ \E file \in Files : ReaderLoadEnd(file)
    \/ \E file \in Files : ReaderError(file)
    \/ \E text \in PromptTexts : SetPrompt(text)
    \/ handleSubmit
    \/ \E i \in 1..Len(inflight) : \E result \in ResultsFor(inflight[i]) :
          HandleResponse(i, result)
    \/ handleRoleReset
    \/ UtteranceEnd

Spec == Init /\ [][Next]_vars

\* App after an upload and a successful transform into a role of RoleTexts
InitRoles ==
    /\ originalImage = [base64 |-> "AAAA", mimeType |-> "image/png"]
    /\ displayImage = DataUrl("image/png", TransformedData("AAAA"))
    /\ prompt = ""
    /\ currentRole \in RoleTexts
    /\ isLoading = FALSE
    /\ error = Null
    /\ voices \in VoiceLists
    /\ dialogOpen = FALSE
    /\ readers = [f \in Files |-> 0]
    /\ inflight = << >>
    /\ synth = << >>
    /\ last = Other
    /\ talks = << >>

\* the chat turns of a conversation: typing, submitting, the response
NextRoles ==
    \/ \E text \in PromptTexts : SetPrompt(text)
    \/ handleSubmit
    \/ \E i \in 1..Len(inflight) : \E result \in ResultsFor(inflight[i]) :
          HandleResponse(i, result)
    \/ UtteranceEnd

\* the conversation in a role, from the transform into it on
SpecRoles == InitRoles /\ [][NextRoles]_vars

\* the promise of an outstanding generateContent call settles
AwaitSettles ==
    \E i \in 1..Len(inflight) : \E result \in ResultsFor(inflight[i]) :
        HandleResponse(i, result)

\* App when every generateContent call eventually resolves or rejects: the
\* event loop then runs the rest of handleSubmit
SpecLive == Spec /\ WF_vars(AwaitSettles)

----------------------------------------------------------------------------
(* The proxy: app.post("/api/talk") *)

\* the most POST /api/talk requests in one run
MaxTalks == 2

roleVoices ==
    << <<"king", "male_deep_indian">>, <<"police", "male_strict">>,
       <<"farmer", "male_simple">>, <<"doctor", "male_doctor">>,
       <<"queen", "female_royal">>, <<"teacher", "female_teacher">>,
       <<"dancer", "female_excited">>, <<"singer", "female_singer">> >>

\* a role that is not a string (a number): it has no toLowerCase
NotAString == "<number>"

\* req.body when express.json() parsed no body
NoBody == [text |-> Undefined, role |-> Undefined, parsed |-> FALSE]

\* req.body of the requests of the model
TalkBodies ==
    {NoBody}
    \cup {[text |-> "Hello", role |-> r, parsed |-> TRUE] :
            r \in {Undefined, "Queen", "nurse", "constructor", NotAString}}

\* how the fetch of https://api.d-id.com/talks can settle: rejected, or
\* fulfilled with a status and a body
NoUpstream == [settled |-> "none", status |-> 0, body |-> ""]
UpstreamRejected == [settled |-> "rejected", status |-> 0, body |-> ""]
UpstreamResults ==
    {UpstreamRejected,
     [settled |-> "fulfilled", status |-> 201,
      body |-> "{\"id\":\"tlk_1\",\"status\":\"created\"}"],
     [settled |-> "fulfilled", status |-> 401,
      body |-> "{ \"kind\": \"AuthorizationError\" }"],
     [settled |-> "fulfilled", status |-> 502, body |-> "<html>Bad Gateway</html>"]}

\* role?.toLowerCase(): undefined for a role that is null or undefined
OptionalToLowerCase(role) == IF role = Undefined THEN Undefined ELSE ToLowerCase(role)

\* const voiceId = roleVoices[role?.toLowerCase()] || "default_voice"
VoiceId(role) == OrElse(Lookup(roleVoices, OptionalToLowerCase(role)), "default_voice")

\* JSON.stringify leaves out a property whose value is undefined or a function
Serializable(member) == member[2] \notin {Undefined, InheritedFunction}

\* the script object of the forwarded body as JSON.stringify writes it
ForwardedScript(text, voiceId) ==
    [kind |-> "object", str |-> "",
     obj |-> SelectSeq(<< <<"type", "text">>, <<"input", text>>, <<"voice_id", voiceId>> >>,
                       Serializable)]

NoScript == [kind |-> "none", str |-> "", obj |-> << >>]

\* res.status(status).json(value): one more response on the connection
Respond(talk, status, body) ==
    [talk EXCEPT !.pc = "done", !.responses = Append(@, [status |-> status, body |-> body])]

\* a catch that logs the error and sends nothing
CatchWithoutResponse(talk) == [talk EXCEPT !.pc = "done"]

\* the catch (err): res.status(500).json({ error: "Something went wrong" })
Catch(talk) ==
    Respond(talk, 500, JsonStringify([kind |-> "object", str |-> "",
                                      obj |-> << <<"error", "Something went wrong">> >>]))

\* the handler up to its first await: the destructuring of req.body throws
\* when there is no body, role.toLowerCase when role is not a string
StartTalk(body) ==
    LET talk == [body |-> body, pc |-> "start", script |-> NoScript,
                 upstream |-> NoUpstream, responses |-> << >>]
    IN  IF ~body.parsed \/ body.role = NotAString THEN Catch(talk)
        ELSE [talk EXCEPT !.pc = "fetch",
                          !.script = ForwardedScript(body.text, VoiceId(body.role))]

\* a POST /api/talk request arrives
PostTalk(body) ==
    /\ Len(talks) < MaxTalks
    /\ talks' = Append(talks, StartTalk(body))
    /\ UNCHANGED appVars

\* await fetch(...) settles
AfterFetch(talk, result) ==
    IF result.settled = "rejected" THEN Catch([talk EXCEPT !.upstream = result])
    ELSE [talk EXCEPT !.pc = "json", !.upstream = result]

FetchSettles(i, result) ==
    /\ i \in 1..Len(talks)
    /\ talks[i].pc = "fetch"
    /\ talks' = [talks EXCEPT ![i] = AfterFetch(@, result)]
    /\ UNCHANGED appVars

\* await response.json() settles, then res.json(data)
AfterJson(talk) ==
    LET data == JsonParse(talk.upstream.body)
    IN  IF data.kind = "SyntaxError" THEN Catch(talk)
        ELSE Respond(talk, 200, JsonStringify(data))

JsonSettles(i) ==
    /\ i \in 1..Len(talks)
    /\ talks[i].pc = "json"
    /\ talks' = [talks EXCEPT ![i] = AfterJson(@)]
    /\ UNCHANGED appVars

NextProxy ==
    \/ \E body \in TalkBodies : PostTalk(body)
    \/ \E i \in 1..Len(talks) : \E result \in UpstreamResults : FetchSettles(i, result)
    \/ \E i \in 1..Len(talks) : JsonSettles(i)

SpecProxy == Init /\ [][NextProxy]_vars

----------------------------------------------------------------------------
(* The front end: requests *)

\* C1: at most one hosted-API request is in flight at any time, isLoading is
\* true for as long as one is outstanding, and a step that starts a request
\* starts from a state where isLoading is false, whatever file reads, role
\* resets and responses are interleaved with the submissions.
C1_SingleRequestInFlight ==
    /\ [](Len(inflight) <= 1 /\ (Len(inflight) > 0 => isLoading))
    /\ [][Len(inflight') > Len(inflight) => ~isLoading]_vars

\* a request is outstanding while a file read is still pending
C1_Witness == Len(inflight) = 1 /\ isLoading /\ PendingReads > 0

\* C2: the conversation state alone decides what an accepted submission
\* sends.  Right after an accepted submission exactly one request is in
\* flight; with currentRole null it is an image-transform request (the image
\* model, the held image, no system instruction), with currentRole non-null
\* it is a chat request whose system instruction names that role.
C2_RoleDecidesRequest ==
    (last.op = "submit" /\ last.accepted) =>
        /\ Len(inflight) = 1
        /\ IF currentRole = Null
           THEN /\ inflight[1].kind = "transform"
                /\ inflight[1].model = "gemini-2.5-flash-image-preview"
                /\ inflight[1].image = originalImage
                /\ inflight[1].systemInstruction = Null
           ELSE /\ inflight[1].kind = "chat"
                /\ inflight[1].model = "gemini-2.5-flash"
                /\ inflight[1].image = NoImage
                /\ Includes(inflight[1].systemInstruction,
                            "Your current role is \"" \o currentRole \o "\"")

\* a chat request was sent while a role is active
C2_Witness ==
    /\ last.op = "submit" /\ last.accepted
    /\ currentRole = "King "
    /\ Len(inflight) = 1 /\ inflight[1].kind = "chat"

----------------------------------------------------------------------------
(* The front end: how a request ends *)

\* the ways a request ends, read from what the service answered
ApiRejected(e) == e.result.settled = "rejected"

TransformWithoutImage(e) ==
    /\ e.req.kind = "transform" /\ e.result.settled = "fulfilled"
    /\ e.result.inlineData = NoInlineData

TransformSucceeded(e) ==
    /\ e.req.kind = "transform" /\ e.result.settled = "fulfilled"
    /\ e.result.inlineData # NoInlineData

ChatAnswered(e) ==
    e.req.kind = "chat" /\ e.result.settled = "fulfilled" /\ e.result.text # Undefined

\* the chat response has no text, or only whitespace
ChatEmpty(e) ==
    /\ e.req.kind = "chat" /\ e.result.settled = "fulfilled"
    /\ (e.result.text = Undefined \/ Trim(e.result.text) = "")

\* the chat response is JSON whose response member is missing or empty
ChatEmptyResponseField(e) ==
    /\ ChatAnswered(e)
    /\ ~ChatReadings[e.result.text].threw
    /\ ~Truthy(ChatReadings[e.result.text].textResponse)

\* the chat response has text that is not JSON
ChatNotJson(e) ==
    /\ ChatAnswered(e)
    /\ Trim(e.result.text) # ""
    /\ ChatReadings[e.result.text].threw

\* an utterance was spoken in a language none of the installed voices has
MissingVoice(e) ==
    /\ e.op = "response" /\ Len(e.spoke) > 0
    /\ Len(LangVoices(e.req.voices, e.spoke[1].lang)) = 0

\* C3 as the specification states it: every failure mode (the API call
\* rejecting, a transform response without image data, a chat response that
\* is empty or not valid JSON, no installed voice for the response language)
\* ends with a non-null error and the prompt restored to the submitted text.
C3_EveryFailureShowsError ==
    (/\ last.op = "response"
     /\ \/ ApiRejected(last) \/ TransformWithoutImage(last) \/ ChatEmpty(last)
        \/ ChatNotJson(last) \/ MissingVoice(last))
    => (error # Null /\ prompt = last.req.currentPrompt)

\* C3, amended: the API call rejecting, a transform response without image
\* data and a chat response that is empty (no text, or a JSON response
\* member that is missing or empty) end with a non-null error and the prompt
\* restored to the submitted text.  A chat response whose text is not JSON
\* is spoken as it is in en-US, and a response in a language no voice is
\* installed for is spoken with no voice set: neither changes the error nor
\* restores the prompt.
C3_FailuresShowErrorOrSpeak ==
    [][last'.op = "response" =>
        /\ (\/ ApiRejected(last') \/ TransformWithoutImage(last') \/ ChatEmpty(last')
            \/ ChatEmptyResponseField(last'))
           => (error' # Null /\ prompt' = last'.req.currentPrompt)
        /\ ChatNotJson(last')
           => /\ Len(last'.spoke) = 1 /\ synth' = last'.spoke
              /\ last'.spoke[1].text = Trim(last'.result.text)
              /\ last'.spoke[1].lang = "en-US"
              /\ error' = error /\ prompt' = prompt /\ prompt' = ""
        /\ MissingVoice(last')
           => /\ Len(last'.spoke) = 1 /\ synth' = last'.spoke
              /\ last'.spoke[1].voice = NoVoice
              /\ error' = error /\ prompt' = prompt /\ prompt' = ""]_vars

\* a chat response that is not JSON was spoken with no voice installed for
\* en-US: no error is shown and the input stays empty
C3_Witness ==
    /\ last.op = "response" /\ ChatNotJson(last) /\ MissingVoice(last)
    /\ Len(last.spoke) = 1 /\ last.spoke[1].voice = NoVoice
    /\ error = Null /\ prompt = "" /\ last.req.currentPrompt = "hi"

----------------------------------------------------------------------------
(* speak *)

\* a voice name that marks the gender: it says "female", or it says "male"
\* without saying "female"
MarksGender(name, gender) ==
    LET n == ToLowerCase(name)
    IN  IF gender = "female" THEN Includes(n, "female")
        ELSE Includes(n, "male") /\ ~Includes(n, "female")

\* the language of a voice is lang, or starts with the primary subtag of lang
LanguageMatches(voiceLang, lang) ==
    voiceLang = lang \/ StartsWith(voiceLang, SplitFirst(lang, "-"))

\* C5: for a hint of male or female, whenever the voices hold one whose
\* language matches and whose name marks that gender, the voice set on the
\* utterance has a matching language and is of the hinted gender.
C5_VoiceMatchesGenderHint ==
    (last.op = "response" /\ Len(last.spoke) > 0
     /\ last.req.gender \in {"male", "female"})
    => LET u == last.spoke[1]
           vs == last.req.voices
           gender == last.req.gender
       IN  (\E i \in 1..Len(vs) :
                LanguageMatches(vs[i].lang, u.lang) /\ MarksGender(vs[i].name, gender))
           => /\ u.voice # NoVoice
              /\ LanguageMatches(u.voice.lang, u.lang)
              /\ MarksGender(u.voice.name, gender)

\* C6: every speak call cancels what is playing or queued before it queues
\* its own utterance: the queue never holds more than one utterance, a
\* handler that spoke leaves exactly its last utterance in the queue, and
\* apart from that the queue only changes by its utterance finishing.
C6_OnlyLatestUtterance ==
    /\ [](Len(synth) <= 1)
    /\ [][IF Len(last'.spoke) > 0
          THEN synth' = <<last'.spoke[Len(last'.spoke)]>>
          ELSE synth' = synth \/ (Len(synth) > 0 /\ synth' = Tail(synth))]_vars

\* a chat turn has queued its utterance
C6_Witness ==
    /\ last.op = "response" /\ last.req.kind = "chat"
    /\ Len(last.spoke) = 1 /\ synth = last.spoke

----------------------------------------------------------------------------
(* The front end: image and role *)

\* C7 as the specification states it: after a transform response with image
\* data, the stored encoded image is the transformed image.
C7_TransformReplacesOriginal ==
    (last.op = "response" /\ TransformSucceeded(last))
    => originalImage = [base64 |-> last.result.inlineData.data,
                        mimeType |-> last.result.inlineData.mimeType]

\* C7, amended: originalImage is replaced on each completed file upload, by
\* the image of that file, and by nothing else; a successful transform leaves
\* originalImage as it is and replaces displayImage, which becomes the data
\* URL of the transformed image.
C7_OnlyUploadReplacesOriginal ==
    [][/\ last'.op = "loadend"
          => \E file \in Files :
                /\ readers'[file] = readers[file] - 1
                /\ originalImage' = [base64 |-> file.content, mimeType |-> file.type]
       /\ originalImage' # originalImage => last'.op = "loadend"
       /\ (last'.op = "response" /\ TransformSucceeded(last'))
          => /\ originalImage' = originalImage
             /\ displayImage' = "data:" \o last'.result.inlineData.mimeType
                                \o ";base64," \o last'.result.inlineData.data]_vars

\* a transform succeeded: the upload is still held, its transform is shown
C7_Witness ==
    /\ last.op = "response" /\ TransformSucceeded(last)
    /\ originalImage = [base64 |-> "AAAA", mimeType |-> "image/png"]
    /\ displayImage = "data:image/png;base64,T(AAAA)"

\* C8: currentRole is null or one role string; it becomes non-null only by a
\* successful image transform and is then the prompt text that request was
\* submitted with; a failed transform and a chat turn leave it as it is.
C8_RoleSetOnlyByTransform ==
    /\ [](currentRole = Null \/ currentRole \in PromptTexts)
    /\ [][/\ (currentRole' # currentRole /\ currentRole' # Null)
             => /\ last'.op = "response" /\ TransformSucceeded(last')
                /\ currentRole' = last'.req.currentPrompt
          /\ (last'.op = "response" /\ TransformSucceeded(last'))
             => currentRole' = last'.req.currentPrompt
          /\ (last'.op = "response" /\ ~TransformSucceeded(last'))
             => currentRole' = currentRole]_vars

\* a role is active after a successful transform
C8_Witness ==
    /\ last.op = "response" /\ TransformSucceeded(last)
    /\ currentRole = "King " /\ last.req.currentPrompt = "King "

\* the request ended with an error reported by handleSubmit
RequestFailed(e) ==
    \/ ApiRejected(e) \/ TransformWithoutImage(e) \/ ChatEmpty(e)
    \/ ChatEmptyResponseField(e)

\* C9: no automatic retries.  A request is sent only by an accepted
\* submission, which sends exactly one; the step that handles a failed
\* request sends none; neither the accepted submission nor the handling of
\* its failure changes currentRole or displayImage.
C9_NoAutomaticRetry ==
    [][/\ Len(inflight') > Len(inflight) => (last'.op = "submit" /\ last'.accepted)
       /\ (last'.op = "submit" /\ last'.accepted)
          => /\ inflight' = Append(inflight, last'.req)
             /\ currentRole' = currentRole /\ displayImage' = displayImage
       /\ (last'.op = "response" /\ RequestFailed(last'))
          => /\ Len(inflight') = Len(inflight) - 1
             /\ inflight' = << >>
             /\ currentRole' = currentRole /\ displayImage' = displayImage]_vars

\* a request was rejected and nothing is in flight
C9_Witness ==
    /\ last.op = "response" /\ ApiRejected(last)
    /\ Len(inflight) = 0 /\ ~isLoading /\ error # Null

\* C11: the loading flag is always released.  When every API call eventually
\* resolves or rejects, every accepted submission, which sets isLoading, is
\* eventually followed by a state in which isLoading is false, no request is
\* outstanding and the form is enabled; and the step that handles the settled
\* call clears the flag whatever the outcome (success, failure result, throw).
C11_LoadingReleased ==
    /\ (last.op = "submit" /\ last.accepted /\ isLoading)
          ~> (~isLoading /\ ~FormDisabled /\ Len(inflight) = 0)
    /\ [][last'.op = "response" => ~isLoading']_vars
    /\ [][(last'.op = "submit" /\ last'.accepted) => isLoading']_vars

\* a call was rejected (the path through the catch) and the flag is released
C11_Witness ==
    /\ last.op = "response" /\ last.result.settled = "rejected"
    /\ ~isLoading /\ ~FormDisabled /\ FormRendered

\* the data URLs the image-generation service can answer with for an image
TransformsOf(image) ==
    {DataUrl(r.inlineData.mimeType, r.inlineData.data) :
        r \in {t \in TransformResults([image |-> image]) : t.inlineData # NoInlineData}}

\* C12: whenever a role is active, the displayed image is the transform
\* result produced from the current originalImage: never the raw upload,
\* never a transform of an upload that has since been superseded.
C12_DisplayIsTransformOfOriginal ==
    Truthy(currentRole) => displayImage \in TransformsOf(originalImage)

\* C13: a submission whose prompt is empty or only whitespace, or that has no
\* uploaded image, is rejected locally, and only such a submission is: error
\* becomes "Please provide a role or a message.", no request is sent, and
\* isLoading, prompt, currentRole, originalImage and displayImage are left
\* unchanged.
C13_EmptySubmissionRejected ==
    [][last'.op = "submit"
       => /\ last'.accepted <=> (Trim(prompt) # "" /\ originalImage # NoImage)
          /\ ~last'.accepted
             => /\ error' = "Please provide a role or a message."
                /\ inflight' = inflight
                /\ UNCHANGED <<isLoading, prompt, currentRole, originalImage,
                               displayImage>>]_vars

\* a whitespace-only prompt was submitted with a role active and rejected
C13_Witness ==
    /\ last.op = "submit" /\ ~last.accepted
    /\ prompt = " " /\ Truthy(currentRole)
    /\ error = "Please provide a role or a message."
    /\ Len(inflight) = 0 /\ ~isLoading

\* C14: selecting a file at once resets currentRole to null, error to null
\* and prompt to empty, and leaves both images alone until the read ends; a
\* read that succeeds sets originalImage and displayImage from that file, and
\* displayImage is the data URL of originalImage; a read that fails sets error
\* to "Failed to read the image file." and keeps originalImage and
\* displayImage; closing the file chooser without a file changes nothing.
C14_UploadEffects ==
    [][/\ (\E file \in Files : readers'[file] > readers[file])
          => /\ currentRole' = Null /\ error' = Null /\ prompt' = ""
             /\ UNCHANGED <<originalImage, displayImage>>
       /\ last'.op = "loadend"
          => /\ \E file \in Files :
                  /\ readers'[file] = readers[file] - 1
                  /\ originalImage' = [base64 |-> file.content, mimeType |-> file.type]
             /\ displayImage' = "data:" \o originalImage'.mimeType \o ";base64,"
                                \o originalImage'.base64
       /\ ((\E file \in Files : readers'[file] < readers[file]) /\ last'.op # "loadend")
          => /\ error' = "Failed to read the image file."
             /\ UNCHANGED <<originalImage, displayImage>>
       /\ (dialogOpen /\ ~dialogOpen' /\ readers' = readers)
          => UNCHANGED <<originalImage, displayImage, prompt, currentRole, isLoading,
                         error, inflight, synth>>]_vars

\* a second read failed after a first one succeeded: the error is shown and
\* the image of the first file is still held and displayed
C14_Witness ==
    /\ error = "Failed to read the image file."
    /\ originalImage = [base64 |-> "BBBB", mimeType |-> "image/jpeg"]
    /\ displayImage = "data:image/jpeg;base64,BBBB"
    /\ currentRole = Null /\ prompt = ""

\* the encoded images of the files a user can upload
Uploads == {[base64 |-> file.content, mimeType |-> file.type] : file \in Files}

\* C15: every image-transform request carries originalImage as of submit
\* time, which is always the image of an uploaded file and never a
\* transformed image, together with the submitted role text, also after a
\* role reset followed by a new transform.
C15_TransformCarriesUpload ==
    /\ [](originalImage = NoImage \/ originalImage \in Uploads)
    /\ [](\A i \in 1..Len(inflight) :
            inflight[i].kind = "transform" => inflight[i].image \in Uploads)
    /\ [][(last'.op = "submit" /\ last'.accepted /\ last'.req.kind = "transform")
          => /\ last'.req.image = originalImage
             /\ last'.req.image \in Uploads
             /\ last'.req.currentPrompt = prompt
             /\ last'.req.contents = TransformInstruction(prompt)]_vars

\* a new transform was submitted after a chat turn whose utterance is still
\* queued, hence after a transform and a role reset: it carries the upload
C15_Witness ==
    /\ last.op = "submit" /\ last.accepted /\ last.req.kind = "transform"
    /\ Len(synth) > 0
    /\ last.req.image = [base64 |-> "AAAA", mimeType |-> "image/png"]
    /\ last.req.currentPrompt = "hi"

\* C16: a role reset happens only when a role is active and no request is in
\* flight; it sets currentRole to null, clears error and sets displayImage to
\* the data URL of the uploaded image held in originalImage, leaving
\* originalImage, prompt and isLoading unchanged and sending nothing; the
\* accepted submission that follows is an image transform.
C16_RoleReset ==
    /\ [][(Truthy(currentRole) /\ currentRole' = Null /\ readers' = readers)
          => /\ ~isLoading /\ Len(inflight) = 0
             /\ error' = Null
             /\ displayImage' = "data:" \o originalImage.mimeType \o ";base64,"
                                \o originalImage.base64
             /\ originalImage \in Uploads
             /\ UNCHANGED <<originalImage, prompt, isLoading, inflight, synth>>]_vars
    /\ [][(~Truthy(currentRole) /\ last'.op = "submit" /\ last'.accepted)
          => last'.req.kind = "transform"]_vars
    /\ []((~Truthy(currentRole) /\ Len(inflight) > 0)
          => \A i \in 1..Len(inflight) : inflight[i].kind = "transform")

\* the role was reset after a chat turn whose utterance is still queued: the
\* upload is displayed again and a typed prompt is still in the input
C16_Witness ==
    /\ currentRole = Null /\ Len(synth) > 0 /\ error = Null
    /\ originalImage = [base64 |-> "AAAA", mimeType |-> "image/png"]
    /\ displayImage = "data:image/png;base64,AAAA"
    /\ prompt = "hi" /\ ~isLoading /\ Len(inflight) = 0
    /\ last.op = "other"

\* the chat response's text parses as JSON with a non-empty response member
ChatJsonWithResponse(e) ==
    /\ ChatAnswered(e)
    /\ ~ChatReadings[e.result.text].threw
    /\ Truthy(ChatReadings[e.result.text].textResponse)

\* exactly one utterance was handed to the synthesizer, with this text and
\* this language (any language when lang is undefined: the JSON has no
\* language field to compare with)
SpokeOnce(e, text, lang) ==
    /\ Len(e.spoke) = 1
    /\ e.spoke[1].text = text
    /\ lang # Undefined => e.spoke[1].lang = lang

\* C17: in a chat turn, a returned text that parses as JSON with a non-empty
\* response field makes exactly one utterance, whose text is that field and
\* whose language is the JSON's language field; a returned text that is not
\* empty and not valid JSON makes exactly one utterance, the raw text in
\* en-US; in both cases no error is set and the prompt stays empty.
C17_ChatTurnSpeaks ==
    [][/\ (last'.op = "response" /\ ChatJsonWithResponse(last'))
          => /\ SpokeOnce(last', ChatReadings[last'.result.text].textResponse,
                          ChatReadings[last'.result.text].language)
             /\ error' = error /\ prompt' = ""
       /\ (last'.op = "response" /\ ChatNotJson(last'))
          => /\ SpokeOnce(last', Trim(last'.result.text), "en-US")
             /\ error' = error /\ prompt' = ""]_vars

\* the gender the static table lists for a role once lowercased and trimmed,
\* 'neutral' for a role it does not list
TableGender(role) ==
    IF \E k \in 1..Len(roleToGender) : roleToGender[k][1] = Trim(ToLowerCase(role))
    THEN roleToGender[CHOOSE k \in 1..Len(roleToGender) :
                          roleToGender[k][1] = Trim(ToLowerCase(role))][2]
    ELSE "neutral"

\* the first voice of a list that passes, NoVoice if none does
FirstVoice(vs, passes) ==
    IF \E k \in 1..Len(vs) : passes[k]
    THEN vs[CHOOSE k \in 1..Len(vs) : passes[k] /\ \A j \in 1..(k - 1) : ~passes[j]]
    ELSE NoVoice

\* the voice for a neutral hint: of the voices for the language (the same tag
\* or the same primary subtag), the default one, else a non-local one, else
\* the first; no voice when the language has none
NeutralVoice(vs, lang) ==
    LET forLang == LangVoices(vs, lang)
        default == FirstVoice(forLang, [k \in 1..Len(forLang) |-> forLang[k].default])
        remote == FirstVoice(forLang, [k \in 1..Len(forLang) |-> ~forLang[k].localService])
    IN  IF Len(forLang) = 0 THEN NoVoice
        ELSE IF default # NoVoice THEN default
        ELSE IF remote # NoVoice THEN remote
        ELSE forLang[1]

\* C18: the gender hint of a chat turn is the table gender of the active role
\* lowercased and trimmed, and 'neutral' for every role the table does not
\* list; with the hint 'neutral' speak sets the language's default voice, else
\* a non-local voice, else the first voice for that language.
C18_GenderHintFromTable ==
    /\ \A i \in 1..Len(inflight) :
          inflight[i].kind = "chat" => inflight[i].gender = TableGender(currentRole)
    /\ (last.op = "response" /\ last.req.kind = "chat" /\ last.req.gender = "neutral")
       => \A k \in 1..Len(last.spoke) :
             last.spoke[k].voice = NeutralVoice(last.req.voices, last.spoke[k].lang)

----------------------------------------------------------------------------
(* The proxy *)

\* a step of the handler threw: no usable request body, a role that is not a
\* string, a rejected fetch, or an upstream body that is not JSON
TalkThrew(talk) ==
    \/ ~talk.body.parsed
    \/ talk.body.role = NotAString
    \/ talk.upstream.settled = "rejected"
    \/ (talk.upstream.settled = "fulfilled"
        /\ JsonParse(talk.upstream.body).kind = "SyntaxError")

\* C4: every POST /api/talk request gets exactly one response.  No request
\* is answered twice, a handler that has finished has answered, an answer
\* ends the handler; when the forwarded call completed and its body parsed
\* as JSON the response carries that JSON, and when a step threw the
\* response is status 500 with the error object.
C4_ExactlyOneResponse ==
    \A i \in 1..Len(talks) :
        LET talk == talks[i]
        IN  /\ Len(talk.responses) <= 1
            /\ (talk.pc = "done") <=> (Len(talk.responses) = 1)
            /\ talk.pc = "done" =>
                IF TalkThrew(talk)
                THEN /\ talk.responses[1].status = 500
                     /\ talk.responses[1].body = "{\"error\":\"Something went wrong\"}"
                ELSE /\ talk.upstream.settled = "fulfilled"
                     /\ JsonParse(talk.responses[1].body) = JsonParse(talk.upstream.body)
                     /\ JsonParse(talk.responses[1].body).kind = "object"

\* one request was answered with the upstream JSON, another with the 500 of
\* the catch after an upstream body that is not JSON
C4_Witness ==
    /\ Len(talks) = 2
    /\ talks[1].pc = "done" /\ talks[1].responses[1].status = 200
    /\ talks[1].responses[1].body = "{\"kind\":\"AuthorizationError\"}"
    /\ talks[2].pc = "done" /\ talks[2].responses[1].status = 500
    /\ talks[2].upstream.status = 502

\* the entry of the static table for a role, "default_voice" when it has none
TableVoice(role) ==
    IF role # Undefined /\ \E k \in 1..Len(roleVoices) : roleVoices[k][1] = ToLowerCase(role)
    THEN roleVoices[CHOOSE k \in 1..Len(roleVoices) :
                        roleVoices[k][1] = ToLowerCase(role)][2]
    ELSE "default_voice"

\* C10: for every request whose role is a string, or that has no role, the
\* voice_id forwarded upstream is the table entry of the lowercased role if
\* the table has one and "default_voice" otherwise.
C10_VoiceIdFromTable ==
    \A i \in 1..Len(talks) :
        (talks[i].script # NoScript /\ talks[i].body.role # NotAString)
        => Member(talks[i].script, "voice_id") = TableVoice(talks[i].body.role)

\* C19: the proxy never reports success for a forward the talking-head API
\* rejected: a request whose upstream call was answered with an error status
\* (400 or above) is answered with status 500, not 200.
C19_UpstreamErrorIsFailure ==
    \A i \in 1..Len(talks) :
        (/\ talks[i].pc = "done"
         /\ talks[i].upstream.settled = "fulfilled"
         /\ talks[i].upstream.status >= 400)
        => \A k \in 1..Len(talks[i].responses) : talks[i].responses[k].status = 500

====
